---- MODULE Spec2Model ----
(***************************************************************************)
(* Complaint bot (src/bot.py): the complaint lifecycle, the fan-out of     *)
(* complaint notifications to staff and their later retraction, and the    *)
(* complaint form of a submitter, the directory of employees (adding,      *)
(* linking, registering and removing them), the administrator's lists and  *)
(* the notification of the submitter and the group log after a resolve.    *)
(*                                                                         *)
(* The dispatcher runs every incoming update as its own asyncio task, so   *)
(* handlers interleave at their awaits on the database and on the Bot API. *)
(* One model step is the code a handler runs between two such awaits;      *)
(* awaits on the Bot API whose result no handler reads are taken in the    *)
(* step before them, except where the order of the calls is what a         *)
(* property is about.                                                      *)
(* A database statement with its commit is one step (SQLite serialises     *)
(* writers and shows other connections committed data only).               *)
(***************************************************************************)
EXTENDS Integers, Sequences, FiniteSets, Bags, TLC

\* ------------------------------------------------------------------ bounds
NumPrincipals == 3      \* principals 1..NumPrincipals
MaxUpdates    == 7      \* updates (messages, button presses) the bot receives
SerialUpdates == 11     \* the same bound of the specification that runs the
SerialRunning == 1      \* handlers SerialRunning at a time (SpecSerial)
DirectoryUpdates == 5   \* updates of the specification of the directory (SpecDirectory)
DirectoryRunning == 2   \* and the handlers it runs at a time
StaffUpdates == 7       \* updates of the specification of staff and resolves (SpecStaff)
StaffRunning == 1       \* and the handlers it runs at a time
SubmitUpdates == 6      \* updates of the specification of staff and submissions (SpecSubmit)
SubmitRunning == 1      \* and the handlers it runs at a time
AdminUpdates == 4       \* updates of the specification of the administrative handlers (SpecAdmin)
AdminRunning == 2       \* and the handlers it runs at a time
PromptUpdates == 4      \* updates of the specification of the reject prompts (SpecPrompt)
PromptRunning == 2      \* and the handlers it runs at a time

\* ------------------------------------------------------- program constants
ADMIN_ID == 1
LOG_GROUP == -1         \* the chat id of a log group
NULL     == 0           \* SQL NULL / Python None for an integer column

Principals == 1..NumPrincipals

VARIABLES
    complaints,          \* table complaints: row id = index
    blocked_users,       \* table blocked_users: set of user_id
    employees,           \* table employees
    complaint_messages,  \* table complaint_messages
    fsm,                 \* MemoryStorage: per principal, FSM state and data
    running,             \* bag of handler activations in flight
    tg_sent,             \* Bot API: delivered copies that carry the controls
    tg_edits,            \* Bot API: copies for which edit_message_reply_markup was called
    next_message_id,     \* Bot API: next message_id of each chat
    updates,             \* number of updates received so far
    hist,                \* per complaint: what the handlers did for it
    refused,             \* principals whose /complaint was answered "blocked"
    quota,               \* the bounds of the specification being explored
    late,                \* effects and answers of resolve attempts started after a finished resolve
    answer,              \* Bot API: the last answer of a directory handler to each principal
    revoked,             \* principals whose employee record was removed and who were not bound since
    LOG_CHAT_ID          \* the chat of the log group, NULL when none is configured

vars == <<complaints, blocked_users, employees, complaint_messages, fsm, running,
          tg_sent, tg_edits, next_message_id, updates, hist, refused,
          quota, late, answer, revoked, LOG_CHAT_ID>>

store == <<complaints, blocked_users, employees, complaint_messages>>
tg    == <<tg_sent, tg_edits, next_message_id>>
dir   == <<answer, revoked>>
env   == <<quota, LOG_CHAT_ID>>

\* ------------------------------------------------------------------ helpers
None == "None"          \* SQL NULL / Python None for a text column or a message text

\* state.clear(): no state and no data
IdleFsm == [state |-> "none", complaint_id |-> NULL,
            fio |-> None, position |-> None, rank |-> None]

NoHist == [recipients |-> <<>>, fanout |-> "none", failed |-> {},
           writes |-> 0, writer |-> NULL, passes |-> 0, pass_after_fanout |-> FALSE,
           by_blocked |-> FALSE, finished |-> FALSE,
           notices |-> 0, noticed |-> FALSE, audits |-> 0, prompted |-> {}]

ComplaintIds == 1..Len(complaints)

Activations == BagToSet(running)
Spawn(t)    == running' = running (+) SetToBag({t})
Move(t, u)  == running' = (running (-) SetToBag({t})) (+) SetToBag({u})
Finish(t)   == running' = running (-) SetToBag({t})
CanSpawn    == BagCardinality(running) < quota.running
Receive     == updates < quota.updates /\ updates' = updates + 1

NewActivation(kind, actor, cid, pc) ==
    [kind |-> kind, actor |-> actor, cid |-> cid, pc |-> pc,
     user_id |-> NULL, rows |-> {}, todo |-> <<>>,
     late |-> FALSE, by_blocked |-> FALSE,
     username |-> <<>>, profile |-> <<>>, registered |-> FALSE, revoked |-> FALSE,
     reason |-> None]

RECURSIVE SeqOfSet(_)
SeqOfSet(S) ==      \* the elements of a set of integers, ascending
    IF S = {} THEN <<>>
    ELSE LET m == CHOOSE x \in S : \A y \in S : x <= y
         IN  <<m>> \o SeqOfSet(S \ {m})

\* ------------------------------------------------------------------- text
\* A message: a text (a sequence of characters) or a message without text (a photo, a
\* sticker), whose message.text is None.
Msg(chars) == [is_text |-> TRUE, chars |-> chars]
NonText    == [is_text |-> FALSE, chars |-> <<>>]

\* what a text column receives from message.text, its content left out
TextOf(m) == IF m.is_text THEN "text" ELSE None

Lower(ch) == CASE ch = "A" -> "a" [] ch = "B" -> "b" [] OTHER -> ch

\* str.lower()
lower(s) == [i \in 1..Len(s) |-> Lower(s[i])]

RECURSIVE lstrip(_, _)
\* str.lstrip(ch)
lstrip(s, ch) == IF s # <<>> /\ Head(s) = ch THEN lstrip(Tail(s), ch) ELSE s

RECURSIVE rstrip(_, _)
rstrip(s, ch) ==
    IF s # <<>> /\ s[Len(s)] = ch THEN rstrip(SubSeq(s, 1, Len(s) - 1), ch) ELSE s

\* str.strip()
strip(s) == rstrip(lstrip(s, " "), " ")

\* mutant: the handle is stored as typed
NormalizedAsTyped(text) == text

\* message.text.lstrip("@").lower().strip()
Normalized(text) == strip(lower(lstrip(text, "@")))

RECURSIVE Reverse(_)
Reverse(s) == IF s = <<>> THEN <<>> ELSE Reverse(Tail(s)) \o <<Head(s)>>

\* ------------------------------------------------------------ store reads
\* mutant: the block list is not consulted
is_blocked_never(user_id) == FALSE

\* SELECT 1 FROM blocked_users WHERE user_id=?
is_blocked(user_id) == user_id \in blocked_users

\* mutant: the SELECT does not test registered
is_registered_employee_unregistered(user_id) ==
    \E e \in employees : e.user_id = user_id

\* SELECT 1 FROM employees WHERE user_id=? AND registered=1
is_registered_employee(user_id) ==
    \E e \in employees : e.user_id = user_id /\ e.registered

is_staff(user_id) == user_id = ADMIN_ID \/ is_registered_employee(user_id)

\* mutant: the administrative handlers do not test the caller
NotAdminUntested(user_id) == FALSE

\* if message.from_user.id != ADMIN_ID: return -- the test of the administrative handlers
NotAdmin(user_id) == user_id # ADMIN_ID

\* mutant: the SELECT does not test registered
get_all_recipient_ids_unregistered ==
    LET rowids == {e.rowid : e \in {x \in employees : x.user_id # NULL}}
        uid(n) == (CHOOSE e \in employees : e.rowid = n).user_id
        ordered == SeqOfSet(rowids)
    IN  <<ADMIN_ID>> \o [i \in 1..Len(ordered) |-> uid(ordered[i])]

\* Admin + all registered employees (one entry per row, in rowid order).
get_all_recipient_ids ==
    LET rowids == {e.rowid : e \in {x \in employees : x.registered /\ x.user_id # NULL}}
        uid(n) == (CHOOSE e \in employees : e.rowid = n).user_id
        ordered == SeqOfSet(rowids)
    IN  <<ADMIN_ID>> \o [i \in 1..Len(ordered) |-> uid(ordered[i])]

\* SELECT chat_id, message_id FROM complaint_messages WHERE complaint_id=?
MessagesOf(complaint_id) ==
    {r \in complaint_messages : r.complaint_id = complaint_id}

\* SELECT id FROM complaints WHERE status='pending' ORDER BY created_at DESC
PendingIds ==
    Reverse(SeqOfSet({c \in ComplaintIds : complaints[c].status = "pending"}))

\* mutant: the status test is missing
IsPendingUntested(status) == TRUE

\* the status test of the resolve handlers: status != "pending" answers "already handled"
IsPending(status) == status = "pending"

\* mutant: the status is not written before the handler goes on
ResolvedNotWritten(row, status, actor) == row

\* mutant: the UPDATE sets the status alone
ResolvedStatusOnly(row, status, actor) == [row EXCEPT !.status = status]

\* UPDATE complaints SET status=?, accepted_by=? WHERE id=?
Resolved(row, status, actor) == [row EXCEPT !.status = status, !.accepted_by = actor]

\* mutant: the block handler leaves the block list alone
BlockInsertMissing(user_id) == blocked_users

\* INSERT OR IGNORE INTO blocked_users (user_id, ...)
BlockInsert(user_id) == blocked_users \cup {user_id}

\* msg_rows.append((complaint_id, rid, sent.message_id)) after a delivery that did not raise
Delivered(rows, complaint_id, rid, message_id) ==
    rows \cup {[complaint_id |-> complaint_id, chat_id |-> rid, message_id |-> message_id]}

\* mutant: the append is outside the try, a row is kept for a failed delivery too
NotDeliveredKept(rows, complaint_id, rid, message_id) ==
    Delivered(rows, complaint_id, rid, message_id)

\* the except branch of the delivery loop: nothing is appended
NotDelivered(rows, complaint_id, rid, message_id) == rows

Ref(r) == <<r.chat_id, r.message_id>>
\* for chat_id, message_id in rows: the references the retraction loop edits
EditTargets(rows) == {Ref(r) : r \in rows}

\* mutant: the first edit that raises ends the loop
EditCallsUntilFailure(rows, failed) ==
    IF failed = {} THEN EditTargets(rows) ELSE {}

\* try: edit ... except Exception: pass -- a failed edit does not end the loop
EditCalls(rows, failed) == EditTargets(rows)

Copy(chat_id, message_id, complaint_id, via) ==
    [chat_id |-> chat_id, message_id |-> message_id, complaint_id |-> complaint_id, via |-> via]


Note(t, what) == IF t.late THEN late \cup {what} ELSE late

Answer(to, what) == answer' = [answer EXCEPT ![to] = what]

\* ------------------------------------------------------------------- Init
\* The state after init_db, after the administrator has added one employee
\* and that employee has registered.
StartEmployees ==
    {[rowid |-> 1, username |-> <<"b">>, user_id |-> ADMIN_ID + 1,
      fio |-> "text", position |-> "text", rank |-> "text", nickname |-> "text",
      registered |-> TRUE]}

Start ==
    /\ complaints = <<>>
    /\ blocked_users = {}
    /\ employees = StartEmployees
    /\ complaint_messages = {}
    /\ fsm = [p \in Principals |-> IdleFsm]
    /\ running = EmptyBag
    /\ tg_sent = {}
    /\ tg_edits = {}
    /\ next_message_id = [p \in Principals |-> 1]
    /\ updates = 0
    /\ hist = <<>>
    /\ refused = {}
    /\ late = {}
    /\ answer = [p \in Principals |-> "none"]
    /\ revoked = {}

Init ==
    /\ Start
    /\ quota = [updates |-> MaxUpdates, running |-> MaxUpdates]
    /\ LOG_CHAT_ID \in {NULL, LOG_GROUP}

InitSerial ==
    /\ Start
    /\ quota = [updates |-> SerialUpdates, running |-> SerialRunning]
    /\ LOG_CHAT_ID = LOG_GROUP

\* ------------------------------------------------- resolve: the callbacks
\* A callback query accept_<id> / block_<id> / reject_<id> reaches the bot when the
\* principal presses a button of a copy that was delivered to their chat.
HasCopy(a, c) == \E m \in tg_sent : m.chat_id = a /\ m.complaint_id = c

\* is_staff awaits the database except for the administrator (user_id == ADMIN_ID or ...)
FirstPc(a) == IF a = ADMIN_ID THEN "select" ELSE "auth"

StartCallback(kind, a, c) ==
    /\ CanSpawn
    /\ Receive
    /\ HasCopy(a, c)
    /\ Spawn([NewActivation(kind, a, c, FirstPc(a))
                EXCEPT !.late = hist[c].finished, !.revoked = a \in revoked])
    /\ UNCHANGED <<store, tg, fsm, hist, refused, late, env, dir>>

accept_complaint_start(a, c) == StartCallback("accept", a, c)
block_user_callback_start(a, c) == StartCallback("block", a, c)
reject_start_start(a, c) == StartCallback("reject", a, c)

\* if not await is_staff(...): answer "no access" and return
AuthCallback(t) ==
    /\ t.kind \in {"accept", "block", "reject", "complaints"}
    /\ t.pc = "auth"
    /\ IF is_staff(t.actor)
       THEN Move(t, [t EXCEPT !.pc = "select"]) /\ answer' = answer
       ELSE Finish(t) /\ Answer(t.actor, "no_access")
    /\ UNCHANGED <<store, tg, fsm, updates, hist, refused, late, env, revoked>>

\* SELECT user_id, status FROM complaints WHERE id=? and the two early returns
SelectComplaint(t) ==
    /\ t.kind \in {"accept", "block", "reason"}
    /\ t.pc = "select"
    /\ IF t.cid \notin ComplaintIds
       THEN Finish(t) /\ late' = Note(t, "not_found")
       ELSE IF ~IsPending(complaints[t.cid].status)
       THEN Finish(t) /\ late' = Note(t, "already")
       ELSE /\ Move(t, [t EXCEPT !.pc = "update", !.user_id = complaints[t.cid].user_id])
            /\ late' = late
    /\ UNCHANGED <<store, tg, fsm, updates, hist, refused, env, dir>>

\* accept_complaint: UPDATE ... status='accepted', commit; then the submitter is notified
AcceptUpdate(t) ==
    /\ t.kind = "accept"
    /\ t.pc = "update"
    /\ complaints' = [complaints EXCEPT ![t.cid] = Resolved(@, "accepted", t.actor)]
    /\ hist' = [hist EXCEPT ![t.cid].writes = @ + 1, ![t.cid].writer = t.actor]
    /\ late' = Note(t, "write")
    /\ Move(t, [t EXCEPT !.pc = "notify"])
    /\ UNCHANGED <<blocked_users, employees, complaint_messages, tg, fsm, updates, refused, env, dir>>

\* block_user_callback: INSERT OR IGNORE INTO blocked_users, UPDATE ... status='blocked',
\* commit; the handler goes on to the retraction, the submitter is not written to
BlockUpdate(t) ==
    /\ t.kind = "block"
    /\ t.pc = "update"
    /\ blocked_users' = BlockInsert(t.user_id)
    /\ complaints' = [complaints EXCEPT ![t.cid] = Resolved(@, "blocked", t.actor)]
    /\ hist' = [hist EXCEPT ![t.cid].writes = @ + 1, ![t.cid].writer = t.actor]
    /\ late' = Note(t, "write")
    /\ Move(t, [t EXCEPT !.pc = "invalidate"])
    /\ UNCHANGED <<employees, complaint_messages, tg, fsm, updates, refused, env, dir>>

\* mutant: update_data keeps a complaint_id that is already there
PromptKeepsFirst(data, complaint_id) ==
    [data EXCEPT !.state = "reason",
                 !.complaint_id = IF @ = NULL THEN complaint_id ELSE @]

\* state.set_state(RejectForm.reason); state.update_data(complaint_id=complaint_id)
Prompt(data, complaint_id) ==
    [data EXCEPT !.state = "reason", !.complaint_id = complaint_id]

\* the complaint of the prompt that the actor opened last
Prompted(actor, complaint_id) ==
    [c \in ComplaintIds |->
        [hist[c] EXCEPT !.prompted = IF c = complaint_id THEN @ \cup {actor} ELSE @ \ {actor}]]

\* reject_start: SELECT status; on pending set RejectForm.reason and remember the id
RejectPrompt(t) ==
    /\ t.kind = "reject"
    /\ t.pc = "select"
    /\ IF t.cid \notin ComplaintIds
       THEN fsm' = fsm /\ late' = Note(t, "not_found")
       ELSE IF ~IsPending(complaints[t.cid].status)
       THEN fsm' = fsm /\ late' = Note(t, "already")
       ELSE /\ fsm' = [fsm EXCEPT ![t.actor] = Prompt(@, t.cid)]
            /\ late' = Note(t, "prompt")
    /\ hist' = IF t.cid \in ComplaintIds /\ IsPending(complaints[t.cid].status)
               THEN Prompted(t.actor, t.cid)
               ELSE hist
    /\ Finish(t)
    /\ UNCHANGED <<store, tg, updates, refused, env, dir>>

\* reject_reason: any message of a principal whose FSM state is RejectForm.reason, with
\* a text or without; message.text is the reason
reject_reason_start(a, m) ==
    /\ CanSpawn
    /\ Receive
    /\ fsm[a].state = "reason"
    /\ LET c == fsm[a].complaint_id
       IN  Spawn([NewActivation("reason", a, c, "auth")
                    EXCEPT !.late = c \in ComplaintIds /\ hist[c].finished,
                           !.revoked = a \in revoked,
                           !.reason = TextOf(m)])
    /\ UNCHANGED <<store, tg, fsm, hist, refused, late, env, dir>>

\* is_staff, then data = get_data(); complaint_id = data.get("complaint_id"); state.clear()
ReasonAuth(t) ==
    /\ t.kind = "reason"
    /\ t.pc = "auth"
    /\ fsm' = [fsm EXCEPT ![t.actor] = IdleFsm]
    /\ IF is_staff(t.actor)
       THEN Move(t, [t EXCEPT !.pc = "select", !.cid = fsm[t.actor].complaint_id,
                              !.late = t.late /\ fsm[t.actor].complaint_id = t.cid])
            /\ answer' = answer
       ELSE Finish(t) /\ Answer(t.actor, "no_access")
    /\ UNCHANGED <<store, tg, updates, hist, refused, late, env, revoked>>

\* UPDATE ... status='rejected', commit; then the submitter is notified
RejectUpdate(t) ==
    /\ t.kind = "reason"
    /\ t.pc = "update"
    /\ complaints' = [complaints EXCEPT ![t.cid] = Resolved(@, "rejected", t.actor)]
    /\ hist' = [hist EXCEPT ![t.cid].writes = @ + 1, ![t.cid].writer = t.actor]
    /\ late' = Note(t, "write")
    /\ Move(t, [t EXCEPT !.pc = "notify"])
    /\ UNCHANGED <<blocked_users, employees, complaint_messages, tg, fsm, updates, refused, env, dir>>

\* ------------------------------------------ after the write of the status
\* try: await bot.send_message(user_id, ...) except Exception: logger.warning(...)
\* in accept_complaint and reject_reason
NotifySubmitter(t, ok) ==
    /\ t.kind \in {"accept", "reason"}
    /\ t.pc = "notify"
    /\ hist' = [hist EXCEPT ![t.cid].notices = @ + 1,
                            ![t.cid].noticed = @ \/ ok]
    /\ late' = Note(t, "notify")
    /\ Move(t, [t EXCEPT !.pc = "invalidate"])
    /\ UNCHANGED <<store, tg, fsm, updates, refused, env, dir>>

\* invalidate_complaint_messages: the SELECT of the complaint's references, then
\* edit_message_reply_markup(reply_markup=None) for each with errors swallowed. The
\* edits touch only the Bot API side, which no handler reads, so they are taken in the
\* step of the SELECT; failed is the set of references whose edit raised, and tg_edits
\* records the calls made, whatever their outcome. block_user_callback ends with its
\* reply to the actor; accept_complaint and reject_reason go on to the group log.
InvalidateMessages(t, failed) ==
    /\ t.kind \in {"accept", "block", "reason"}
    /\ t.pc = "invalidate"
    /\ failed \subseteq EditTargets(MessagesOf(t.cid))
    /\ tg_edits' = tg_edits \cup EditCalls(MessagesOf(t.cid), failed)
    /\ hist' = [hist EXCEPT ![t.cid].passes = @ + 1,
                            ![t.cid].finished = TRUE,
                            ![t.cid].pass_after_fanout = @ \/ hist[t.cid].fanout = "done"]
    /\ late' = Note(t, "retract")
    /\ IF t.kind = "block" THEN Finish(t) ELSE Move(t, [t EXCEPT !.pc = "log"])
    /\ UNCHANGED <<store, tg_sent, next_message_id, fsm, updates, refused, env, dir>>

\* ---------------------------------------------------------------- group log
\* The reply to the actor (not in a try: when it raises the handler ends there), then
\* log_complaint_to_group: nothing without LOG_CHAT_ID; the complaint card, whose
\* failure ends the function, then the staff card; both failures are logged and
\* swallowed. audits counts the calls that got to the sends.
log_complaint_to_group(t, replied, card, staff_card) ==
    /\ t.kind \in {"accept", "reason"}
    /\ t.pc = "log"
    /\ hist' = IF replied /\ LOG_CHAT_ID # NULL /\ t.cid \in ComplaintIds
               THEN [hist EXCEPT ![t.cid].audits = @ + 1]
               ELSE hist
    /\ late' = Note(t, "log")
    /\ Finish(t)
    /\ UNCHANGED <<store, tg, fsm, updates, refused, env, dir>>

\* ------------------------------------------------------ the complaint form
\* The handlers of EmployeeRegisterForm and AddEmployeeForm are registered before
\* cmd_complaint and cmd_complaints and take every message in their states.
RegStates == {"reg_fio", "reg_position", "reg_rank", "reg_nickname"}
EarlierStates == RegStates \cup {"username"}

\* /complaint
cmd_complaint(u) ==
    /\ Receive
    /\ fsm[u].state \notin EarlierStates
    /\ IF is_blocked(u)
       THEN refused' = refused \cup {u} /\ fsm' = fsm
       ELSE refused' = refused /\ fsm' = [fsm EXCEPT ![u].state = "fio"]
    /\ UNCHANGED <<store, tg, running, hist, late, env, dir>>

\* the three text steps: a blocked principal's form is cleared, otherwise the next step
FormStep(u, from, to) ==
    /\ fsm[u].state = from
    /\ Receive
    /\ IF is_blocked(u)
       THEN fsm' = [fsm EXCEPT ![u] = IdleFsm]
       ELSE fsm' = [fsm EXCEPT ![u].state = to]
    /\ UNCHANGED <<store, tg, running, hist, refused, late, env, dir>>

process_fio(u) == FormStep(u, "fio", "officer_info")
process_officer_info(u) == FormStep(u, "officer_info", "violation")
process_violation(u) == FormStep(u, "violation", "media")

\* skip_media: /skip in ComplaintForm.media goes straight to _submit_complaint,
\* which reads the form data and clears the state before its first database await
skip_media(u) ==
    /\ CanSpawn
    /\ Receive
    /\ fsm[u].state = "media"
    /\ fsm' = [fsm EXCEPT ![u] = IdleFsm]
    /\ Spawn([NewActivation("submit", u, NULL, "insert") EXCEPT !.by_blocked = is_blocked(u)])
    /\ UNCHANGED <<store, tg, hist, refused, late, env, dir>>

\* process_media: a photo, video or document in ComplaintForm.media
process_media(u) ==
    /\ CanSpawn
    /\ Receive
    /\ fsm[u].state = "media"
    /\ Spawn([NewActivation("submit", u, NULL, "check") EXCEPT !.by_blocked = is_blocked(u)])
    /\ UNCHANGED <<store, tg, fsm, hist, refused, late, env, dir>>

\* process_media after its is_blocked await
MediaCheck(t) ==
    /\ t.kind = "submit"
    /\ t.pc = "check"
    /\ fsm' = [fsm EXCEPT ![t.actor] = IdleFsm]
    /\ IF is_blocked(t.actor)
       THEN Finish(t)
       ELSE Move(t, [t EXCEPT !.pc = "insert"])
    /\ UNCHANGED <<store, tg, updates, hist, refused, late, env, dir>>

\* mutant: the row is inserted as already handled
NewComplaintHandled(user_id) ==
    [user_id |-> user_id, status |-> "accepted", accepted_by |-> NULL]

\* the row of INSERT INTO complaints (user_id, ...): status DEFAULT 'pending', accepted_by NULL
NewComplaint(user_id) ==
    [user_id |-> user_id, status |-> "pending", accepted_by |-> NULL]

\* _submit_complaint: INSERT INTO complaints, commit; id is AUTOINCREMENT and
\* complaint_id = cur.lastrowid
SubmitInsert(t) ==
    /\ t.kind = "submit"
    /\ t.pc = "insert"
    /\ complaints' = Append(complaints, NewComplaint(t.actor))
    /\ hist' = Append(hist, [NoHist EXCEPT !.by_blocked = t.by_blocked /\ is_blocked(t.actor)])
    /\ Move(t, [t EXCEPT !.pc = "recipients", !.cid = Len(complaints) + 1])
    /\ UNCHANGED <<blocked_users, employees, complaint_messages, tg, fsm, updates, refused, late, env, dir>>

\* recipients = await get_all_recipient_ids(db); the submitter is answered
SubmitRecipients(t) ==
    /\ t.kind = "submit"
    /\ t.pc = "recipients"
    /\ hist' = [hist EXCEPT ![t.cid].recipients = get_all_recipient_ids,
                            ![t.cid].fanout = "running"]
    /\ Move(t, [t EXCEPT !.pc = "send", !.todo = get_all_recipient_ids])
    /\ UNCHANGED <<store, tg, fsm, updates, refused, late, env, dir>>

\* ------------------------------------------------------------------ fan-out
\* send_complaint_to_all: one turn of the delivery loop
FanoutSend(t, ok) ==
    /\ t.kind = "submit"
    /\ t.pc = "send"
    /\ t.todo # <<>>
    /\ LET rid == Head(t.todo)
           pos == Len(hist[t.cid].recipients) - Len(t.todo) + 1
       IN  IF ok
           THEN /\ tg_sent' = tg_sent \cup {Copy(rid, next_message_id[rid], t.cid, "fanout")}
                /\ next_message_id' = [next_message_id EXCEPT ![rid] = @ + 1]
                /\ hist' = hist
                /\ Move(t, [t EXCEPT !.todo = Tail(t.todo),
                                     !.rows = Delivered(t.rows, t.cid, rid, next_message_id[rid])])
           ELSE /\ UNCHANGED <<tg_sent, next_message_id>>
                /\ hist' = [hist EXCEPT ![t.cid].failed = @ \cup {pos}]
                /\ Move(t, [t EXCEPT !.todo = Tail(t.todo),
                                     !.rows = NotDelivered(t.rows, t.cid, rid, next_message_id[rid])])
    /\ UNCHANGED <<store, tg_edits, fsm, updates, refused, late, env, dir>>

\* after the loop: executemany INSERT INTO complaint_messages, commit
FanoutPersist(t) ==
    /\ t.kind = "submit"
    /\ t.pc = "send"
    /\ t.todo = <<>>
    /\ complaint_messages' = complaint_messages \cup t.rows
    /\ hist' = [hist EXCEPT ![t.cid].fanout = "done"]
    /\ Finish(t)
    /\ UNCHANGED <<complaints, blocked_users, employees, tg, fsm, updates, refused, late, env, dir>>

\* ------------------------------------------------------------- /complaints
\* The form's text steps are registered before cmd_complaints and take the message
\* in their states.
cmd_complaints(a) ==
    /\ CanSpawn
    /\ Receive
    /\ fsm[a].state \notin {"fio", "officer_info", "violation"} \cup EarlierStates
    /\ Spawn(NewActivation("complaints", a, NULL, FirstPc(a)))
    /\ UNCHANGED <<store, tg, fsm, hist, refused, late, env, dir>>

\* SELECT ... FROM complaints WHERE status='pending'
ListSelect(t) ==
    /\ t.kind = "complaints"
    /\ t.pc = "select"
    /\ IF PendingIds = <<>>
       THEN Finish(t)
       ELSE Move(t, [t EXCEPT !.pc = "send", !.todo = PendingIds])
    /\ UNCHANGED <<store, tg, fsm, updates, hist, refused, late, env, dir>>

\* one turn of the loop: the complaint with its keyboard is sent to the caller's chat;
\* nothing is written to complaint_messages
ListSend(t, ok) ==
    /\ t.kind = "complaints"
    /\ t.pc = "send"
    /\ IF ok
       THEN /\ tg_sent' = tg_sent \cup {Copy(t.actor, next_message_id[t.actor], Head(t.todo), "list")}
            /\ next_message_id' = [next_message_id EXCEPT ![t.actor] = @ + 1]
       ELSE UNCHANGED <<tg_sent, next_message_id>>
    /\ IF Len(t.todo) = 1
       THEN Finish(t)
       ELSE Move(t, [t EXCEPT !.todo = Tail(t.todo)])
    /\ UNCHANGED <<store, tg_edits, fsm, updates, hist, refused, late, env, dir>>

\* ------------------------------------------------------------------ unblock
\* /blocked: the administrator gets the block list, an entry with its button for each
\* blocked principal; anybody else gets nothing
cmd_blocked(a) ==
    /\ Receive
    /\ fsm[a].state \notin EarlierStates
    /\ IF NotAdmin(a)
       THEN answer' = answer
       ELSE Answer(a, IF blocked_users = {} THEN "blocked_empty" ELSE "blocked_list")
    /\ UNCHANGED <<store, tg, fsm, running, hist, refused, late, env, revoked>>

\* unblock_user: the button of a /blocked entry; for anybody but the administrator the
\* callback is answered and nothing else is done
unblock_user(a, user_id) ==
    /\ user_id \in blocked_users
    /\ Receive
    /\ IF NotAdmin(a)
       THEN /\ Answer(a, "empty")
            /\ UNCHANGED <<blocked_users, refused>>
       ELSE /\ blocked_users' = blocked_users \ {user_id}
            /\ refused' = refused \ {user_id}
            /\ Answer(a, "unblocked")
    /\ UNCHANGED <<complaints, employees, complaint_messages, tg, fsm, running, hist, late, env, revoked>>

\* ---------------------------------------------------------------- directory
\* the usernames Telegram reports for the sender of an update (<<>>: none)
Usernames == {<<>>, <<"A">>, <<"b">>}
\* what the administrator sends as the username of a new employee: a Telegram username
\* with or without "@" (Telegram trims the text of a message), or a message without text
AddMessages == {Msg(<<"@", "A">>), Msg(<<"a">>), Msg(<<"B">>), Msg(<<"@">>), NonText}
\* what an employee sends in the steps of the registration form
RegMessages == {Msg(<<"a">>), NonText}

\* SELECT ... FROM employees WHERE username=?
ByUsername(username) == {e \in employees : e.username = username}

\* SELECT 1 FROM employees WHERE username=? OR user_id=?
Matching(username, uid) == {e \in employees : e.username = username \/ e.user_id = uid}

\* mutant: cmd_start links without looking at the user_id it has read
UnboundUntested(emp_uid) == TRUE

\* if not emp_uid
Unbound(emp_uid) == emp_uid = NULL

\* UPDATE employees SET user_id=? WHERE username=?
LinkStart(uid, username) ==
    {IF e.username = username THEN [e EXCEPT !.user_id = uid] ELSE e : e \in employees}

\* UPDATE employees SET user_id=? WHERE username=? AND (user_id IS NULL OR user_id=0)
LinkRegister(uid, username) ==
    {IF e.username = username /\ e.user_id = NULL THEN [e EXCEPT !.user_id = uid] ELSE e :
        e \in employees}

\* UPDATE employees SET fio=?, position=?, rank=?, nickname=?, registered=1, user_id=?
\*   WHERE username=? OR user_id=?
CompleteRegistration(uid, username, profile) ==
    {IF e.username = username \/ e.user_id = uid
     THEN [e EXCEPT !.fio = profile[1], !.position = profile[2], !.rank = profile[3],
                    !.nickname = profile[4], !.registered = TRUE, !.user_id = uid]
     ELSE e : e \in employees}

NextRowid == IF employees = {} THEN 1
             ELSE (CHOOSE n \in {e.rowid : e \in employees} :
                      \A e \in employees : e.rowid <= n) + 1

\* INSERT INTO employees (username) VALUES (?): the other columns take their defaults
InsertEmployee(username) ==
    employees \cup {[rowid |-> NextRowid, username |-> username, user_id |-> NULL,
                     fio |-> None, position |-> None, rank |-> None, nickname |-> None,
                     registered |-> FALSE]}

\* DELETE FROM employees WHERE username=?
DeleteEmployee(username) == {e \in employees : e.username # username}

\* the principals that a statement has bound: they are employees again
Bound(after) == {e.user_id : e \in after \ employees} \ {NULL}

\* /start: the administrator gets the menu, everybody else goes on to is_blocked
cmd_start(u, username) ==
    /\ Receive
    /\ IF u = ADMIN_ID
       THEN Answer(u, "admin_menu") /\ running' = running
       ELSE /\ CanSpawn
            /\ Spawn([NewActivation("start", u, NULL, "blocked")
                        EXCEPT !.username = lower(username)])
            /\ answer' = answer
    /\ UNCHANGED <<store, tg, fsm, hist, refused, late, env, revoked>>

\* if await is_blocked(uid): ...; if username: ...
StartBlocked(t) ==
    /\ t.kind = "start"
    /\ t.pc = "blocked"
    /\ IF is_blocked(t.actor)
       THEN Finish(t) /\ Answer(t.actor, "blocked")
       ELSE IF t.username = <<>>
       THEN Finish(t) /\ Answer(t.actor, "welcome")
       ELSE Move(t, [t EXCEPT !.pc = "select"]) /\ answer' = answer
    /\ UNCHANGED <<store, tg, fsm, updates, hist, refused, late, env, revoked>>

\* SELECT user_id, registered FROM employees WHERE username=?
StartSelect(t) ==
    /\ t.kind = "start"
    /\ t.pc = "select"
    /\ IF ByUsername(t.username) = {}
       THEN Finish(t) /\ Answer(t.actor, "welcome")
       ELSE LET row == CHOOSE e \in ByUsername(t.username) : TRUE
            IN  IF Unbound(row.user_id)
                THEN /\ Move(t, [t EXCEPT !.pc = "link", !.registered = row.registered])
                     /\ answer' = answer
                ELSE /\ Finish(t)
                     /\ Answer(t.actor, IF row.registered THEN "employee_menu"
                                                          ELSE "please_register")
    /\ UNCHANGED <<store, tg, fsm, updates, hist, refused, late, env, revoked>>

\* the auto-link: UPDATE employees SET user_id=? WHERE username=?, commit
StartLink(t) ==
    /\ t.kind = "start"
    /\ t.pc = "link"
    /\ employees' = LinkStart(t.actor, t.username)
    /\ revoked' = revoked \ Bound(employees')
    /\ Answer(t.actor, IF t.registered THEN "employee_menu" ELSE "please_register")
    /\ Finish(t)
    /\ UNCHANGED <<complaints, blocked_users, complaint_messages, tg, fsm, updates,
                   hist, refused, late, env>>

\* /register: the administrator is ignored
cmd_register(u, username) ==
    /\ Receive
    /\ IF u = ADMIN_ID
       THEN running' = running
       ELSE /\ CanSpawn
            /\ Spawn([NewActivation("register", u, NULL, "select")
                        EXCEPT !.username = lower(username)])
    /\ UNCHANGED <<store, tg, fsm, hist, refused, late, env, dir>>

\* SELECT 1 FROM employees WHERE username=? OR user_id=?; without a username the form
\* starts at once
RegisterSelect(t) ==
    /\ t.kind = "register"
    /\ t.pc = "select"
    /\ IF Matching(t.username, t.actor) = {}
       THEN Finish(t) /\ Answer(t.actor, "not_employee") /\ fsm' = fsm
       ELSE IF t.username # <<>>
       THEN Move(t, [t EXCEPT !.pc = "link"]) /\ answer' = answer /\ fsm' = fsm
       ELSE /\ Finish(t)
            /\ Answer(t.actor, "reg_step_1")
            /\ fsm' = [fsm EXCEPT ![t.actor].state = "reg_fio"]
    /\ UNCHANGED <<store, tg, updates, hist, refused, late, env, revoked>>

\* the link step of /register, then state.set_state(EmployeeRegisterForm.fio)
RegisterLink(t) ==
    /\ t.kind = "register"
    /\ t.pc = "link"
    /\ employees' = LinkRegister(t.actor, t.username)
    /\ revoked' = revoked \ Bound(employees')
    /\ fsm' = [fsm EXCEPT ![t.actor].state = "reg_fio"]
    /\ Answer(t.actor, "reg_step_1")
    /\ Finish(t)
    /\ UNCHANGED <<complaints, blocked_users, complaint_messages, tg, updates,
                   hist, refused, late, env>>

\* reg_fio, reg_position, reg_rank: any message in the state is taken, its text is kept
\* in the FSM data and the next step is asked
RegStep(u, from, to, m) ==
    /\ fsm[u].state = from
    /\ Receive
    /\ fsm' = [fsm EXCEPT ![u] =
                  [@ EXCEPT !.state = to,
                            !.fio = IF from = "reg_fio" THEN TextOf(m) ELSE @,
                            !.position = IF from = "reg_position" THEN TextOf(m) ELSE @,
                            !.rank = IF from = "reg_rank" THEN TextOf(m) ELSE @]]
    /\ UNCHANGED <<store, tg, running, hist, refused, late, env, dir>>

reg_fio(u, m) == RegStep(u, "reg_fio", "reg_position", m)
reg_position(u, m) == RegStep(u, "reg_position", "reg_rank", m)
reg_rank(u, m) == RegStep(u, "reg_rank", "reg_nickname", m)

\* reg_nickname: data = get_data(); state.clear(); then the UPDATE
reg_nickname(u, username, m) ==
    /\ fsm[u].state = "reg_nickname"
    /\ CanSpawn
    /\ Receive
    /\ fsm' = [fsm EXCEPT ![u] = IdleFsm]
    /\ Spawn([NewActivation("reg", u, NULL, "update")
                EXCEPT !.username = lower(username),
                       !.profile = <<fsm[u].fio, fsm[u].position, fsm[u].rank, TextOf(m)>>])
    /\ UNCHANGED <<store, tg, hist, refused, late, env, dir>>

\* UPDATE employees SET ..., registered=1, user_id=? WHERE username=? OR user_id=?, commit;
\* the answer is "registration complete" whatever the UPDATE matched
RegUpdate(t) ==
    /\ t.kind = "reg"
    /\ t.pc = "update"
    /\ employees' = CompleteRegistration(t.actor, t.username, t.profile)
    /\ revoked' = revoked \ Bound(employees')
    /\ Answer(t.actor, "registered")
    /\ Finish(t)
    /\ UNCHANGED <<complaints, blocked_users, complaint_messages, tg, fsm, updates,
                   hist, refused, late, env>>

\* /add_employee: only the administrator gets the prompt. The registration steps are
\* registered before it and take the message in their states.
cmd_add_employee(u) ==
    /\ Receive
    /\ fsm[u].state \notin RegStates
    /\ IF NotAdmin(u)
       THEN fsm' = fsm /\ answer' = answer
       ELSE fsm' = [fsm EXCEPT ![u].state = "username"] /\ Answer(u, "ask_username")
    /\ UNCHANGED <<store, tg, running, hist, refused, late, env, revoked>>

\* process_add_employee: state.clear(); the username is normalised (a message without
\* text raises here); an empty one is refused
process_add_employee(u, m) ==
    /\ fsm[u].state = "username"
    /\ CanSpawn
    /\ Receive
    /\ fsm' = [fsm EXCEPT ![u] = IdleFsm]
    /\ IF ~m.is_text
       THEN running' = running /\ answer' = answer
       ELSE IF Normalized(m.chars) = <<>>
       THEN running' = running /\ Answer(u, "invalid_username")
       ELSE /\ Spawn([NewActivation("add", u, NULL, "select")
                        EXCEPT !.username = Normalized(m.chars)])
            /\ answer' = answer
    /\ UNCHANGED <<store, tg, hist, refused, late, env, revoked>>

\* SELECT 1 FROM employees WHERE username=?
AddSelect(t) ==
    /\ t.kind = "add"
    /\ t.pc = "select"
    /\ IF ByUsername(t.username) # {}
       THEN Finish(t) /\ Answer(t.actor, "duplicate")
       ELSE Move(t, [t EXCEPT !.pc = "insert"]) /\ answer' = answer
    /\ UNCHANGED <<store, tg, fsm, updates, hist, refused, late, env, revoked>>

\* INSERT INTO employees (username), commit; username is UNIQUE, so the INSERT of a
\* handle that was added since the SELECT raises and nothing is written
AddInsert(t) ==
    /\ t.kind = "add"
    /\ t.pc = "insert"
    /\ IF ByUsername(t.username) # {}
       THEN employees' = employees /\ answer' = answer
       ELSE employees' = InsertEmployee(t.username) /\ Answer(t.actor, "added")
    /\ Finish(t)
    /\ UNCHANGED <<complaints, blocked_users, complaint_messages, tg, fsm, updates,
                   hist, refused, late, env, revoked>>

\* /staff: the administrator gets the employees, an entry with its button for each;
\* anybody else gets nothing
cmd_staff(a) ==
    /\ Receive
    /\ fsm[a].state \notin EarlierStates
    /\ IF NotAdmin(a)
       THEN answer' = answer
       ELSE Answer(a, IF employees = {} THEN "staff_empty" ELSE "staff_list")
    /\ UNCHANGED <<store, tg, fsm, running, hist, refused, late, env, revoked>>

\* delete_employee: the button of a /staff entry; for anybody but the administrator the
\* callback is answered and nothing else is done
delete_employee(a, username) ==
    /\ ByUsername(username) # {}
    /\ Receive
    /\ IF NotAdmin(a)
       THEN /\ Answer(a, "empty")
            /\ UNCHANGED <<employees, revoked>>
       ELSE /\ employees' = DeleteEmployee(username)
            /\ revoked' = revoked \cup ({e.user_id : e \in ByUsername(username)} \ {NULL})
            /\ Answer(a, "deleted")
    /\ UNCHANGED <<complaints, blocked_users, complaint_messages, tg, fsm, running,
                   hist, refused, late, env>>

\* ------------------------------------------------------------ specification
\* the complaint form and the submission with its fan-out
Form ==
    \/ \E u \in Principals : cmd_complaint(u)
    \/ \E u \in Principals : process_fio(u)
    \/ \E u \in Principals : process_officer_info(u)
    \/ \E u \in Principals : process_violation(u)
    \/ \E u \in Principals : skip_media(u)
    \/ \E u \in Principals : process_media(u)
    \/ \E t \in Activations : MediaCheck(t)
    \/ \E t \in Activations : SubmitInsert(t)
    \/ \E t \in Activations : SubmitRecipients(t)
    \/ \E t \in Activations, ok \in BOOLEAN : FanoutSend(t, ok)
    \/ \E t \in Activations : FanoutPersist(t)

\* the resolve handlers with the retraction
Resolve ==
    \/ \E a \in Principals, c \in ComplaintIds : accept_complaint_start(a, c)
    \/ \E a \in Principals, c \in ComplaintIds : block_user_callback_start(a, c)
    \/ \E a \in Principals, c \in ComplaintIds : reject_start_start(a, c)
    \/ \E a \in Principals, m \in RegMessages : reject_reason_start(a, m)
    \/ \E t \in Activations : AuthCallback(t)
    \/ \E t \in Activations : SelectComplaint(t)
    \/ \E t \in Activations : AcceptUpdate(t)
    \/ \E t \in Activations : BlockUpdate(t)
    \/ \E t \in Activations : RejectPrompt(t)
    \/ \E t \in Activations : ReasonAuth(t)
    \/ \E t \in Activations : RejectUpdate(t)
    \/ \E t \in Activations, ok \in BOOLEAN : NotifySubmitter(t, ok)
    \/ \E t \in Activations :
          \E failed \in SUBSET EditTargets(MessagesOf(t.cid)) : InvalidateMessages(t, failed)
    \/ \E t \in Activations, replied, card, staff_card \in BOOLEAN :
          log_complaint_to_group(t, replied, card, staff_card)

\* /complaints, and the administrator who presses the unblock button of a /blocked entry
Listing ==
    \/ \E a \in Principals : cmd_complaints(a)
    \/ \E t \in Activations : ListSelect(t)
    \/ \E t \in Activations, ok \in BOOLEAN : ListSend(t, ok)
    \/ \E u \in Principals : unblock_user(ADMIN_ID, u)

Next == Form \/ Resolve \/ Listing

Spec == Init /\ [][Next]_vars

\* the handlers one at a time, with room for one more complaint
SpecSerial == InitSerial /\ [][Next]_vars

\* /start with the auto-link
Linking ==
    \/ \E u \in Principals, username \in Usernames : cmd_start(u, username)
    \/ \E t \in Activations : StartBlocked(t)
    \/ \E t \in Activations : StartSelect(t)
    \/ \E t \in Activations : StartLink(t)

\* /register and the registration form
Registration ==
    \/ \E u \in Principals, username \in Usernames : cmd_register(u, username)
    \/ \E u \in Principals, m \in RegMessages : reg_fio(u, m)
    \/ \E u \in Principals, m \in RegMessages : reg_position(u, m)
    \/ \E u \in Principals, m \in RegMessages : reg_rank(u, m)
    \/ \E u \in Principals, username \in Usernames, m \in RegMessages :
          reg_nickname(u, username, m)
    \/ \E t \in Activations : RegisterSelect(t)
    \/ \E t \in Activations : RegisterLink(t)
    \/ \E t \in Activations : RegUpdate(t)

\* /add_employee
Adding ==
    \/ \E u \in Principals : cmd_add_employee(u)
    \/ \E u \in Principals, m \in AddMessages : process_add_employee(u, m)
    \/ \E t \in Activations : AddSelect(t)
    \/ \E t \in Activations : AddInsert(t)

\* the administrator presses the delete button of a /staff entry
Removal == \E e \in employees : delete_employee(ADMIN_ID, e.username)

\* the handlers of the employee directory
Directory == Linking \/ Registration \/ Adding \/ Removal

InitDirectory ==
    /\ Start
    /\ quota = [updates |-> DirectoryUpdates, running |-> DirectoryRunning]
    /\ LOG_CHAT_ID = LOG_GROUP

\* the directory alone: no complaint is submitted
SpecDirectory == InitDirectory /\ [][Directory]_vars

\* The state after the administrator has added a second employee, who has not contacted
\* the bot yet, and after a principal who is not an employee has submitted a complaint
\* that was delivered to the administrator and to the registered employee.
StaffEmployees ==
    StartEmployees \cup
    {[rowid |-> 2, username |-> <<"a">>, user_id |-> NULL,
      fio |-> None, position |-> None, rank |-> None, nickname |-> None,
      registered |-> FALSE]}

StartStaff ==
    /\ complaints = <<[user_id |-> NumPrincipals, status |-> "pending", accepted_by |-> NULL]>>
    /\ blocked_users = {}
    /\ employees = StaffEmployees
    /\ complaint_messages = {[complaint_id |-> 1, chat_id |-> p, message_id |-> 1] :
                                 p \in {ADMIN_ID, ADMIN_ID + 1}}
    /\ fsm = [p \in Principals |-> IdleFsm]
    /\ running = EmptyBag
    /\ tg_sent = {Copy(p, 1, 1, "fanout") : p \in {ADMIN_ID, ADMIN_ID + 1}}
    /\ tg_edits = {}
    /\ next_message_id = [p \in Principals |-> IF p \in {ADMIN_ID, ADMIN_ID + 1} THEN 2 ELSE 1]
    /\ updates = 0
    /\ hist = <<[NoHist EXCEPT !.recipients = <<ADMIN_ID, ADMIN_ID + 1>>, !.fanout = "done"]>>
    /\ refused = {}
    /\ late = {}
    /\ answer = [p \in Principals |-> "none"]
    /\ revoked = {}

InitStaff ==
    /\ StartStaff
    /\ quota = [updates |-> StaffUpdates, running |-> StaffRunning]
    /\ LOG_CHAT_ID = LOG_GROUP

\* employees who register and are removed, and the resolve handlers, one at a time
SpecStaff == InitStaff /\ [][Resolve \/ Registration \/ Removal]_vars

InitSubmit ==
    /\ StartStaff
    /\ quota = [updates |-> SubmitUpdates, running |-> SubmitRunning]
    /\ LOG_CHAT_ID = LOG_GROUP

\* employees who register and are removed, and the submission of complaints, one at a time
SpecSubmit == InitSubmit /\ [][Form \/ Registration \/ Removal]_vars

\* The state after the administrator has blocked the submitter of that complaint.
StartBlocklist ==
    /\ complaints = <<[user_id |-> NumPrincipals, status |-> "blocked", accepted_by |-> ADMIN_ID]>>
    /\ blocked_users = {NumPrincipals}
    /\ employees = StaffEmployees
    /\ complaint_messages = {[complaint_id |-> 1, chat_id |-> p, message_id |-> 1] :
                                 p \in {ADMIN_ID, ADMIN_ID + 1}}
    /\ fsm = [p \in Principals |-> IdleFsm]
    /\ running = EmptyBag
    /\ tg_sent = {Copy(p, 1, 1, "fanout") : p \in {ADMIN_ID, ADMIN_ID + 1}}
    /\ tg_edits = {<<p, 1>> : p \in {ADMIN_ID, ADMIN_ID + 1}}
    /\ next_message_id = [p \in Principals |-> IF p \in {ADMIN_ID, ADMIN_ID + 1} THEN 2 ELSE 1]
    /\ updates = 0
    /\ hist = <<[NoHist EXCEPT !.recipients = <<ADMIN_ID, ADMIN_ID + 1>>, !.fanout = "done",
                               !.writes = 1, !.writer = ADMIN_ID, !.passes = 1,
                               !.pass_after_fanout = TRUE, !.finished = TRUE]>>
    /\ refused = {}
    /\ late = {}
    /\ answer = [p \in Principals |-> "none"]
    /\ revoked = {}

InitAdmin ==
    /\ StartBlocklist
    /\ quota = [updates |-> AdminUpdates, running |-> AdminRunning]
    /\ LOG_CHAT_ID = LOG_GROUP

\* the administrative commands and buttons, used by any principal
Administration ==
    \/ Adding
    \/ \E a \in Principals : cmd_staff(a)
    \/ \E a \in Principals, e \in employees : delete_employee(a, e.username)
    \/ \E a \in Principals : cmd_blocked(a)
    \/ \E a, u \in Principals : unblock_user(a, u)

SpecAdmin == InitAdmin /\ [][Administration]_vars

\* The state after two principals have each submitted a complaint that was delivered to
\* the administrator and to the registered employee.
StartPrompt ==
    /\ complaints = [c \in 1..2 |-> [user_id |-> NumPrincipals, status |-> "pending",
                                     accepted_by |-> NULL]]
    /\ blocked_users = {}
    /\ employees = StartEmployees
    /\ complaint_messages = {[complaint_id |-> c, chat_id |-> p, message_id |-> c] :
                                 c \in 1..2, p \in {ADMIN_ID, ADMIN_ID + 1}}
    /\ fsm = [p \in Principals |-> IdleFsm]
    /\ running = EmptyBag
    /\ tg_sent = {Copy(p, c, c, "fanout") : c \in 1..2, p \in {ADMIN_ID, ADMIN_ID + 1}}
    /\ tg_edits = {}
    /\ next_message_id = [p \in Principals |-> IF p \in {ADMIN_ID, ADMIN_ID + 1} THEN 3 ELSE 1]
    /\ updates = 0
    /\ hist = [c \in 1..2 |->
                  [NoHist EXCEPT !.recipients = <<ADMIN_ID, ADMIN_ID + 1>>, !.fanout = "done"]]
    /\ refused = {}
    /\ late = {}
    /\ answer = [p \in Principals |-> "none"]
    /\ revoked = {}

InitPrompt ==
    /\ StartPrompt
    /\ quota = [updates |-> PromptUpdates, running |-> PromptRunning]
    /\ LOG_CHAT_ID = LOG_GROUP

\* the resolve handlers on two pending complaints
SpecPrompt == InitPrompt /\ [][Resolve]_vars

\* ------------------------------------------------------------------ claims
Terminal(c) == complaints[c].status # "pending"
FanoutCopies(c) == {m \in tg_sent : m.complaint_id = c /\ m.via = "fanout"}
RowOf(m) == [complaint_id |-> m.complaint_id, chat_id |-> m.chat_id, message_id |-> m.message_id]

\* C1: of the resolve attempts that run concurrently on one pending complaint, exactly
\* one performs a status write; the others write nothing.
C1_SingleStatusWrite == \A c \in ComplaintIds : hist[c].writes <= 1

\* C2: once a complaint's status is accepted, rejected or blocked, no step changes its
\* status or its resolver.
C2_TerminalIsFinal ==
    [][\A c \in ComplaintIds : Terminal(c) => complaints'[c] = complaints[c]]_vars

\* C3: a resolve attempt started after an earlier resolve of the same complaint has
\* completed is answered "already handled": it gets past neither the status test nor
\* to a write, a retraction, a notification or the log.
C3_LateAttemptRefused ==
    /\ late \subseteq {"already"}
    /\ \A t \in Activations : t.late => t.pc \in {"auth", "select"}

C3_Witness == "already" \in late

\* C4: the resolver (accepted_by) is NULL exactly while the status is pending, and for a
\* terminal status it is the actor whose attempt wrote the status.
C4_ResolverIffTerminal ==
    \A c \in ComplaintIds :
        /\ complaints[c].accepted_by = NULL <=> ~Terminal(c)
        /\ Terminal(c) => complaints[c].accepted_by = hist[c].writer

C4_Witness ==
    \E c \in ComplaintIds : Terminal(c) /\ complaints[c].accepted_by = ADMIN_ID + 1

\* C5: the retraction pass of a complaint is started at most once.
C5_OneRetractionPass == \A c \in ComplaintIds : hist[c].passes <= 1

\* C6: once a complaint is resolved and every handler has finished, every copy that the
\* submission fan-out delivered has had an edit attempted.
C6_DeliveredCopiesRetracted ==
    \A c \in ComplaintIds :
        (Terminal(c) /\ running = EmptyBag) =>
            \A m \in FanoutCopies(c) : Ref(m) \in tg_edits

\* C7: every delivered copy that carries the controls has a row in complaint_messages
\* once the operation that delivered it has finished.
DeliveryFinished(m) ==
    IF m.via = "fanout"
    THEN hist[m.complaint_id].fanout = "done"
    ELSE \A t \in Activations : ~(t.kind = "complaints" /\ t.actor = m.chat_id)

C7_EveryCopyTracked ==
    \A m \in tg_sent : DeliveryFinished(m) => RowOf(m) \in complaint_messages

\* C8: the fan-out tries every recipient and persists exactly the references of the
\* deliveries that succeeded; a retraction pass that reads them after the fan-out edits
\* exactly those, and the references stay as persisted.
C8_FanoutAndRetraction ==
    \A c \in ComplaintIds :
        /\ hist[c].fanout # "done" => MessagesOf(c) = {}
        /\ hist[c].fanout = "done" =>
              /\ MessagesOf(c) = {RowOf(m) : m \in FanoutCopies(c)}
              /\ Cardinality(MessagesOf(c)) + Cardinality(hist[c].failed)
                    = Len(hist[c].recipients)
        /\ {r \in tg_edits : \E m \in tg_sent : Ref(m) = r /\ m.complaint_id = c}
              \subseteq EditTargets(MessagesOf(c))
        /\ hist[c].pass_after_fanout => EditTargets(MessagesOf(c)) \subseteq tg_edits

C8_Witness ==
    \E c \in ComplaintIds :
        /\ hist[c].fanout = "done"
        /\ hist[c].failed # {}
        /\ MessagesOf(c) # {}
        /\ hist[c].pass_after_fanout

\* C9: while a principal is in the block list, /complaint by that principal is refused:
\* the store, the form state and the Bot API side stay as they are.
C9_BlockedCannotStart ==
    [][\A u \in Principals :
          (u \in blocked_users /\ cmd_complaint(u)) =>
              (UNCHANGED <<store, fsm, running, tg>> /\ u \in refused')]_vars

C9_Witness ==
    \E u \in refused :
        /\ u \in blocked_users
        /\ \E c \in ComplaintIds : complaints[c].user_id = u /\ complaints[c].status = "blocked"

\* C10: no complaint is created by a form step that a principal takes while in the
\* block list.
C10_BlockedCannotSubmit == \A c \in ComplaintIds : ~hist[c].by_blocked

\* C11: the step of a block attempt that leads to its success report has put the
\* submitter in the block list and set the status to blocked; and a principal enters the
\* block list only in such a step.
C11_BlockListWithStatus ==
    [][/\ \A t \in Activations :
            (t.kind = "block" /\ BlockUpdate(t)) =>
                (t.user_id \in blocked_users' /\ complaints'[t.cid].status = "blocked")
       /\ \A u \in Principals :
            (u \notin blocked_users /\ u \in blocked_users') =>
                \E t \in Activations :
                    /\ t.kind = "block" /\ t.user_id = u /\ BlockUpdate(t)
                    /\ complaints'[t.cid].status = "blocked"]_vars

C11_Witness ==
    \E c \in ComplaintIds :
        /\ complaints[c].status = "blocked"
        /\ hist[c].finished
        /\ complaints[c].user_id \in blocked_users

\* C12: a link (the auto-link of /start, the link step of /register) that finds the handle
\* bound, to the same principal or to another one, leaves the directory as it is.
HandleBound(username) == \E e \in ByUsername(username) : e.user_id # NULL

C12_LinkKeepsBinding ==
    [][\A t \in Activations :
          /\ (StartSelect(t) /\ HandleBound(t.username)) =>
                (Finish(t) /\ employees' = employees)
          /\ (RegisterLink(t) /\ HandleBound(t.username)) => employees' = employees]_vars

C12_Witness ==
    \E p \in Principals :
        /\ answer[p] = "employee_menu"
        /\ \A e \in employees : e.user_id # p
        /\ \E e \in employees : e.user_id # NULL

\* C13: a record that is bound to a principal keeps that principal as long as the record
\* exists.
C13_BindingIsKept ==
    [][\A e \in employees : \A f \in employees' :
          (e.user_id # NULL /\ f.rowid = e.rowid /\ f.username = e.username) =>
              f.user_id = e.user_id]_vars

\* C14: no principal is bound to two records with different handles.
C14_OneHandlePerPrincipal ==
    \A e, f \in employees :
        (e.user_id # NULL /\ e.user_id = f.user_id) => e.username = f.username

\* C15: the completion of a registration that matches no unregistered employee is answered
\* "not found" and leaves the directory as it is.
C15_CompletionNeedsUnregistered ==
    [][\A t \in Activations :
          (RegUpdate(t) /\ \A e \in Matching(t.username, t.actor) : e.registered) =>
              (employees' = employees /\ answer'[t.actor] = "not_found")]_vars

\* C16: a registered employee has the four profile fields and a principal.
C16_RegisteredHasProfile ==
    \A e \in employees :
        e.registered =>
            /\ e.fio # None /\ e.position # None /\ e.rank # None /\ e.nickname # None
            /\ e.user_id # NULL

\* C17: a resolve step that a principal other than the administrator starts after the
\* removal of their employee record, and before anything binds them again, is refused at
\* the authorization check and changes no complaint and no block-list entry.
ResolveKinds == {"accept", "block", "reject", "reason"}

C17_RemovedIsRefused ==
    [][\A t \in Activations :
          (/\ t.kind \in ResolveKinds
           /\ t.revoked /\ t.actor \in revoked /\ t.actor # ADMIN_ID
           /\ (AuthCallback(t) \/ ReasonAuth(t))) =>
              (Finish(t) /\ UNCHANGED <<complaints, blocked_users>>)]_vars

\* C18: is_staff holds exactly for the administrator and for the principals bound to a
\* registered record, and a resolve step of a principal who is not one of them is refused
\* and changes no complaint, no block-list entry and no notification reference.
Authorized(p) ==
    p = ADMIN_ID \/ \E e \in employees : e.user_id = p /\ e.registered

C18_OnlyAuthorizedStaff ==
    [][/\ \A p \in Principals : is_staff(p) <=> Authorized(p)
       /\ \A t \in Activations :
            (/\ t.kind \in ResolveKinds
             /\ ~Authorized(t.actor)
             /\ (AuthCallback(t) \/ ReasonAuth(t))) =>
                (/\ Finish(t)
                 /\ answer'[t.actor] = "no_access"
                 /\ UNCHANGED <<complaints, blocked_users, complaint_messages>>)]_vars

C18_Witness ==
    \E p \in Principals :
        /\ answer[p] = "no_access"
        /\ \E e \in employees : e.user_id = p /\ ~e.registered
        /\ \A c \in ComplaintIds : complaints[c].status = "pending"

\* C19: the username of an added employee is what the administrator typed without the
\* leading "@" and in lower case; a username that is in the directory is answered as a
\* duplicate and nothing is written; otherwise exactly one record is added, with that
\* username, no principal, no profile and registered = 0; no two records share a username.
HandleForm(text) == lower(lstrip(text, "@"))

Fresh(e, username) ==
    /\ e.username = username /\ e.user_id = NULL /\ ~e.registered
    /\ e.fio = None /\ e.position = None /\ e.rank = None /\ e.nickname = None

C19_AddEmployee ==
    [][/\ \A e, f \in employees' : e.username = f.username => e = f
       /\ \A u \in Principals, m \in AddMessages :
            (process_add_employee(u, m) /\ m.is_text /\ HandleForm(m.chars) # <<>>) =>
                \E t \in Activations' :
                    t.kind = "add" /\ t.pc = "select" /\ t.username = HandleForm(m.chars)
       /\ \A t \in Activations :
            /\ (AddSelect(t) /\ ByUsername(t.username) # {}) =>
                  (Finish(t) /\ employees' = employees /\ answer'[t.actor] = "duplicate")
            /\ (AddInsert(t) /\ ByUsername(t.username) # {}) => employees' = employees
            /\ (AddInsert(t) /\ ByUsername(t.username) = {}) =>
                  /\ employees \subseteq employees'
                  /\ \E e \in employees' :
                        employees' \ employees = {e} /\ Fresh(e, t.username)]_vars

C19_Witness ==
    /\ answer[ADMIN_ID] = "duplicate"
    /\ \E e \in employees : Fresh(e, <<"a">>)

\* C20: the recipients computed for a submission are the administrator and the
\* principals of the records that are registered and bound at that moment.
Range(seq) == {seq[i] : i \in 1..Len(seq)}

RegisteredPrincipals ==
    {e.user_id : e \in {x \in employees : x.registered /\ x.user_id # NULL}}

C20_RecipientsAreStaff ==
    [][\A t \in Activations :
          SubmitRecipients(t) =>
              Range(hist'[t.cid].recipients) = {ADMIN_ID} \cup RegisteredPrincipals]_vars

C20_Witness ==
    \E c \in ComplaintIds :
        /\ hist[c].fanout = "running"
        /\ ADMIN_ID + 1 \in Range(hist[c].recipients)
        /\ \E e \in employees :
              e.user_id # NULL /\ ~e.registered /\ e.user_id \notin Range(hist[c].recipients)

\* no handler that works on complaint c is in flight after the step
IdleAfter(c) == \A t \in BagToSet(running') : t.cid # c

\* C21: a reject whose reason message carries no text is refused: its handler writes no
\* status, notifies nobody, retracts nothing and logs nothing.
C21_ReasonRequired ==
    [][\A t \in Activations :
          (t.kind = "reason" /\ t.reason = None) =>
              /\ ~RejectUpdate(t)
              /\ \A ok \in BOOLEAN : ~NotifySubmitter(t, ok)
              /\ \A failed \in SUBSET EditTargets(MessagesOf(t.cid)) :
                    ~InvalidateMessages(t, failed)
              /\ \A replied, card, staff_card \in BOOLEAN :
                    ~log_complaint_to_group(t, replied, card, staff_card)]_vars

\* C22: with a log group configured, every status write of a complaint is followed by one
\* call of the group log once its handler has finished, and the call comes after a
\* retraction pass of the complaint; with none configured nothing is logged.
C22_AuditAfterRetraction ==
    [][/\ \A c \in ComplaintIds :
             (LOG_CHAT_ID # NULL /\ IdleAfter(c)) => hist'[c].audits = hist'[c].writes
       /\ \A c \in ComplaintIds :
             hist'[c].audits # hist[c].audits => hist[c].passes > 0
       /\ LOG_CHAT_ID = NULL => \A c \in ComplaintIds : hist'[c].audits = 0]_vars

\* C23: the steps after the status write (the notification of the submitter, the
\* retraction, the reply and the group log) leave the complaints and the block list as
\* they are whatever fails in them; after a notification, failed or not, the retraction
\* is next and calls the edit for every reference, failed or not, and the group log
\* is next after it.
C23_LaterFailuresKeepResolution ==
    [][\A t \in Activations :
          /\ \A ok \in BOOLEAN :
                NotifySubmitter(t, ok) =>
                    /\ UNCHANGED <<complaints, blocked_users>>
                    /\ Move(t, [t EXCEPT !.pc = "invalidate"])
          /\ \A failed \in SUBSET EditTargets(MessagesOf(t.cid)) :
                InvalidateMessages(t, failed) =>
                    /\ UNCHANGED <<complaints, blocked_users>>
                    /\ EditTargets(MessagesOf(t.cid)) \subseteq tg_edits'
                    /\ t.kind # "block" => Move(t, [t EXCEPT !.pc = "log"])
          /\ \A replied, card, staff_card \in BOOLEAN :
                log_complaint_to_group(t, replied, card, staff_card) =>
                    /\ UNCHANGED <<complaints, blocked_users>>
                    /\ (replied /\ LOG_CHAT_ID # NULL) =>
                          hist'[t.cid].audits = hist[t.cid].audits + 1]_vars

C23_Witness ==
    \E c \in ComplaintIds :
        /\ complaints[c].status = "accepted"
        /\ hist[c].notices = 1 /\ ~hist[c].noticed
        /\ MessagesOf(c) # {} /\ EditTargets(MessagesOf(c)) \subseteq tg_edits
        /\ hist[c].audits = 1

\* C24: once the handlers of a complaint have finished, the submitter has been sent one
\* notification for every status write of the complaint; a notification that fails
\* changes no answer and nothing on the Bot API side.
C24_SubmitterNotifiedOnce ==
    [][/\ \A c \in ComplaintIds : IdleAfter(c) => hist'[c].notices = hist'[c].writes
       /\ \A t \in Activations : NotifySubmitter(t, FALSE) => UNCHANGED <<answer, tg>>]_vars

\* C25: a retraction pass of a complaint is about to run, or has run, only while the
\* stored status of the complaint is terminal and a status write has been committed.
C25_RetractionAfterWrite ==
    \A c \in ComplaintIds :
        (\/ hist[c].passes > 0
         \/ \E t \in Activations : t.cid = c /\ t.pc \in {"invalidate", "log"})
            => (Terminal(c) /\ hist[c].writes > 0)

C25_Witness ==
    \E c \in ComplaintIds :
        hist[c].passes = 1 /\ hist[c].writes = 1 /\ complaints[c].status = "rejected"

\* C26: a submission appends one complaint, whose id is the next after all the ids so
\* far, pending and without a resolver; no other step adds a complaint; no step removes
\* one or changes the submitter of one.
C26_ComplaintsOnlyGrow ==
    [][/\ Len(complaints') >= Len(complaints)
       /\ \A c \in ComplaintIds : complaints'[c].user_id = complaints[c].user_id
       /\ \A t \in Activations :
             SubmitInsert(t) =>
                 /\ Len(complaints') = Len(complaints) + 1
                 /\ \A c \in ComplaintIds : complaints'[c] = complaints[c]
                 /\ complaints'[Len(complaints')] =
                        [user_id |-> t.actor, status |-> "pending", accepted_by |-> NULL]
                 /\ \E u \in BagToSet(running') :
                        u.actor = t.actor /\ u.cid = Len(complaints')
                                          /\ \A c \in ComplaintIds : u.cid > c
       /\ Len(complaints') # Len(complaints) => \E t \in Activations : SubmitInsert(t)]_vars

C26_Witness ==
    /\ Len(complaints) = 2
    /\ Terminal(1)
    /\ complaints[2].status = "pending" /\ complaints[2].accepted_by = NULL

\* C27: /add_employee, the username step, /staff, /blocked, the delete button and the
\* unblock button, used by anybody but the administrator, leave the employees, the block
\* list, the forms and the handlers in flight as they are; only a step of the
\* administrator's handlers changes the employees or the block list.
C27_AdministratorOnly ==
    [][/\ \A p \in Principals \ {ADMIN_ID} :
             (\/ cmd_add_employee(p)
              \/ \E m \in AddMessages : process_add_employee(p, m)
              \/ cmd_staff(p)
              \/ cmd_blocked(p)
              \/ \E e \in employees : delete_employee(p, e.username)
              \/ \E u \in Principals : unblock_user(p, u))
                 => UNCHANGED <<employees, blocked_users, fsm, running>>
       /\ \A t \in Activations : t.kind = "add" => t.actor = ADMIN_ID
       /\ (employees' # employees \/ blocked_users' # blocked_users) =>
             \/ \E t \in Activations : AddInsert(t)
             \/ \E e \in employees : delete_employee(ADMIN_ID, e.username)
             \/ \E u \in Principals : unblock_user(ADMIN_ID, u)]_vars

C27_Witness ==
    /\ answer[ADMIN_ID + 1] = "empty"
    /\ is_registered_employee(ADMIN_ID + 1)
    /\ employees = StaffEmployees
    /\ blocked_users = {NumPrincipals}

\* C28: the reject prompt leaves the store as it is; a reason that arrives after another
\* resolve of the complaint has finished is answered "already handled" and writes
\* nothing; the reason of a principal whose prompt is open goes to the complaint of the
\* prompt that the principal opened last, and its write changes that complaint alone.
C28_PromptThenReason ==
    [][\A t \in Activations :
          /\ RejectPrompt(t) => UNCHANGED store
          /\ (t.kind = "reason" /\ t.late /\ SelectComplaint(t)) =>
                (UNCHANGED store /\ Finish(t) /\ "already" \in late')
          /\ (ReasonAuth(t) /\ is_staff(t.actor) /\ fsm[t.actor].state = "reason") =>
                \E u \in BagToSet(running') :
                    /\ u.kind = "reason" /\ u.actor = t.actor /\ u.pc = "select"
                    /\ u.cid \in ComplaintIds
                    /\ t.actor \in hist[u.cid].prompted
          /\ RejectUpdate(t) =>
                \A c \in ComplaintIds \ {t.cid} : complaints'[c] = complaints[c]]_vars

C28_Witness ==
    /\ updates = 3
    /\ running = EmptyBag
    /\ "already" \in late
    /\ fsm[ADMIN_ID + 1].state = "none"
    /\ \E c \in ComplaintIds :
          /\ ADMIN_ID + 1 \in hist[c].prompted
          /\ complaints[c].accepted_by = ADMIN_ID

====
